---- MODULE Spec2Model ----
(***************************************************************************)
(* Welfare case scoring with a mandatory human approval step.              *)
(*                                                                         *)
(* Three programs of the repository are modelled, each a run of its own:   *)
(*   "backend"  - the HTTP service of backend/main.py (cases_db and        *)
(*                approvals_db, handlers analyze_case, approve_case,       *)
(*                get_cases and get_approvals);                            *)
(*   "workflow" - the ApprovalWorkflow object of step5_human_in_loop.py    *)
(*                (approval_log and the audit entries it prints);          *)
(*   "scoring"  - the components analyze_case calls, used on their own:    *)
(*                WelfareRiskModel of backend/models.py and                *)
(*                ExplanationEngine of backend/explanation.py.             *)
(* The variable `program` says which of them a behaviour is a run of; the  *)
(* other programs' state then stays as constructed.                        *)
(*                                                                         *)
(* Spec           every handler is one atomic action (the spec's           *)
(*                request-per-call semantics) and all calls fall within    *)
(*                one tick of the clock, the case in which the timestamps  *)
(*                tell nothing apart;                                      *)
(* SpecTimed      the same with time passing between calls (Tick);         *)
(* SpecConcurrent the backend with approve_case requests of several        *)
(*                clients in flight at once;                               *)
(* SpecCases      the backend's read handlers on stores whose cases were   *)
(*                analyzed at different ticks;                             *)
(* SpecFeatures   a WelfareRiskModel whose prepare_features is called on   *)
(*                batches of several rows and, as analyze_case does, on    *)
(*                one row;                                                 *)
(* SpecStep3      the ExplanationEngine of step3_explanation_engine.py     *)
(*                with its mocked completion client.                       *)
(***************************************************************************)
EXTENDS Integers, Sequences, FiniteSets, TLC

VARIABLES
    program,        \* which program this behaviour runs
    now,            \* the wall clock, in ticks
    models_loaded,  \* backend: risk_model and explanation_engine are set
    cases_db,       \* backend: list of case dicts
    approvals_db,   \* backend: list of approval records
    approval_log,   \* workflow: ApprovalWorkflow.approval_log
    audit_log,      \* workflow: the audit entries printed by _log_approval
    requests,       \* backend: the approve_case requests in flight, by client
    risk_model,     \* scoring: a WelfareRiskModel instance
    engine,         \* scoring: an ExplanationEngine instance
    response        \* the last call and what it answered

vars == <<program, now, models_loaded, cases_db, approvals_db,
          approval_log, audit_log, requests, risk_model, engine, response>>

backendVars == <<models_loaded, cases_db, approvals_db>>
workflowVars == <<approval_log, audit_log>>
scoringVars == <<risk_model, engine>>

-----------------------------------------------------------------------------
(* Bounds of the model *)

MaxCases == 2
MaxLog == 2
MaxTime == 1
MaxBatch == 2

-----------------------------------------------------------------------------
(* Values *)

\* Python's None (an absent dict key reads as None through dict.get).
None == "<None>"

\* Python truthiness of an Optional[str]: None and "" are falsy.
Truthy(s) == s # None /\ s # ""

\* ApprovalRequest.decision, Field(pattern="^(APPROVE|REJECT)$")
Decisions == {"APPROVE", "REJECT"}

OfficerIds == {"OFFICER_123", "OFFICER_456"}

\* the notes an officer sends: the first officer writes notes, the second
\* leaves the optional field out
NotesOf(officer_id) == IF officer_id = "OFFICER_123" THEN "verified" ELSE None

\* (classifier output, regressor output) for one request.  The classifier and
\* the regressor are two forests fitted separately: the regressor's value need
\* not lie in [0, 100], and nothing ties it to the classifier's level (the
\* second pair: level medium with a score of 75).
Predictions == {<<"high", 130>>, <<"medium", 75>>, <<"low", -5>>}

-----------------------------------------------------------------------------
(* Pure functions of the backend *)

Digit(n) == <<"0", "1", "2", "3", "4", "5", "6", "7", "8", "9">>[n + 1]

\* str(n) for a natural number
RECURSIVE IntToStr(_)
IntToStr(n) == IF n < 10 THEN Digit(n) ELSE IntToStr(n \div 10) \o Digit(n % 10)

\* format(n, "03d"): zero-padded to at least three digits
Pad3(n) == IF n < 10 THEN "00" \o IntToStr(n)
           ELSE IF n < 100 THEN "0" \o IntToStr(n)
           ELSE IntToStr(n)

\* strftime('%Y%m%d_%H%M%S') of clock tick t (a tick is a second, t < 60)
StrfTime(t) == "20260101_0000" \o (IF t < 10 THEN "0" \o IntToStr(t) ELSE IntToStr(t))

\* strftime('%Y%m%d%H%M%S') of clock tick t
StrfTimeCompact(t) == "202601010000" \o (IF t < 10 THEN "0" \o IntToStr(t) ELSE IntToStr(t))

\* the case id of step4_backend_api.py and backend/app.py: the compact clock
\* and the store's length, not padded
MakeCaseIdCompact(t, n) == "CASE_" \o StrfTimeCompact(t) \o "_" \o IntToStr(n)

\* a case id made of the clock alone
MakeCaseId_ClockOnly(t, n) == "CASE_" \o StrfTime(t)

\* the case id analyze_case builds from the clock and the store's length
MakeCaseId(t, n) == "CASE_" \o StrfTime(t) \o "_" \o Pad3(n)

\* a clip that bounds the score from above only
Clip_UpperOnly(x) == IF x > 100 THEN 100 ELSE x

\* np.clip(risk_scores, 0, 100)
Clip(x) == IF x < 0 THEN 0 ELSE IF x > 100 THEN 100 ELSE x

\* ExplanationEngine.generate_explanation: the action follows risk_level alone
RecommendedAction(risk_level) ==
    IF risk_level = "high" THEN "URGENT_REVIEW"
    ELSE IF risk_level = "medium" THEN "STANDARD_REVIEW"
    ELSE "ROUTINE_REVIEW"

\* FindFirst with the first element as the default instead of None
FindFirst_DefaultFirst(db, case_id) ==
    LET hits == {i \in 1..Len(db) : db[i].case_id = case_id}
    IN  IF hits = {} THEN (IF Len(db) > 0 THEN 1 ELSE 0)
        ELSE CHOOSE i \in hits : \A j \in hits : i <= j

\* next((c for c in db if c['case_id'] == case_id), None): the index of the
\* first match, 0 for None
FindFirst(db, case_id) ==
    LET hits == {i \in 1..Len(db) : db[i].case_id = case_id}
    IN  IF hits = {} THEN 0 ELSE CHOOSE i \in hits : \A j \in hits : i <= j

\* the case ids a client sends: the ids the service has issued, and one it
\* never issued
RequestCaseIds ==
    {cases_db[i].case_id : i \in 1..Len(cases_db)} \cup {"CASE_UNKNOWN"}

NoResponse == [op |-> "none", code |-> "none"]

\* what a call answered: the HTTP status of a handler, the outcome of a
\* workflow method ("ok" or the ValueError it raised)
Answer(op, code) == [op |-> op, code |-> code]

-----------------------------------------------------------------------------
(* Initial state: module globals as the import leaves them *)

\* a WelfareRiskModel as __init__ leaves it: no forests, an encoder that was
\* never fitted
NewRiskModel == [is_trained |-> FALSE, classes |-> <<>>, forest |-> None]

\* CitizenCase.scheme_type, pattern "^(pension|subsidy|ration)$"
SchemeTypes == {"pension", "ration", "subsidy"}

\* the position of a scheme type in string order
SchemeRank(s) == CASE s = "pension" -> 0 [] s = "ration" -> 1 [] OTHER -> 2

\* np.unique of a column of labels: the distinct labels, sorted
Classes(labels) ==
    LET present == {labels[i] : i \in DOMAIN labels}
    IN  [k \in 1..Cardinality(present) |->
            CHOOSE s \in present :
                Cardinality({u \in present : SchemeRank(u) < SchemeRank(s)}) = k - 1]

\* the forests a model file can hold: one that looks at the income alone, and
\* one that learned the rule of the training data for pensions with an income
\* above 25000, keyed on the code 'pension' had in the training batch
Forests == {"by_income", "by_scheme"}

\* the model file's content in a WelfareRiskModel: the forests, and the encoder
\* fitted on the training batch, which held all three scheme types
LoadedModel(forest) ==
    [is_trained |-> TRUE,
     classes |-> Classes(<<"subsidy", "pension", "ration">>),
     forest |-> forest]

\* the ExplanationEngine objects __init__ can leave: without the SDK no client
\* and no deployment name; with the SDK the deployment name of the environment
\* ('gpt-4' by default, possibly empty) and a client only if the credentials
\* are set and the constructor did not raise
Engines ==
    {[client |-> None, deployment_name |-> None]}
        \cup [client : {None, "AzureOpenAI"}, deployment_name : {"gpt-4", ""}]

Init ==
    /\ program \in {"backend", "workflow", "scoring"}
    /\ now = 0
    /\ models_loaded = FALSE
    /\ cases_db = <<>>
    /\ approvals_db = <<>>
    /\ approval_log = <<>>
    /\ audit_log = <<>>
    /\ requests = <<>>
    /\ risk_model = NewRiskModel
    /\ engine \in IF program = "scoring" THEN Engines
                  ELSE {[client |-> None, deployment_name |-> None]}
    /\ response = NoResponse

\* time passes between calls
Tick ==
    /\ now < MaxTime
    /\ now' = now + 1
    /\ UNCHANGED <<program, backendVars, workflowVars, requests, scoringVars, response>>

-----------------------------------------------------------------------------
(* backend/main.py *)

\* lifespan startup: loads the risk model and builds the explanation engine
lifespan ==
    /\ program = "backend"
    /\ ~models_loaded
    /\ models_loaded' = TRUE
    /\ UNCHANGED <<program, now, cases_db, approvals_db, workflowVars, requests, scoringVars, response>>

\* NewCase that lets a low-risk case through without an officer
NewCase_AutoApprove(case_id, level, score, t) ==
    [case_id |-> case_id,
     risk_score |-> score,
     risk_level |-> level,
     recommended_action |-> RecommendedAction(level),
     timestamp |-> t,
     status |-> IF level = "low" THEN "APPROVE" ELSE "PENDING_APPROVAL",
     officer_id |-> None,
     officer_notes |-> None,
     approval_timestamp |-> None]

\* the dict analyze_case appends to cases_db
NewCase(case_id, level, score, t) ==
    [case_id |-> case_id,
     risk_score |-> score,
     risk_level |-> level,
     recommended_action |-> RecommendedAction(level),
     timestamp |-> t,
     status |-> "PENDING_APPROVAL",
     officer_id |-> None,
     officer_notes |-> None,
     approval_timestamp |-> None]

\* POST /analyze_case
analyze_case ==
    /\ program = "backend"
    /\ \/ /\ ~models_loaded
          /\ response' = Answer("analyze_case", "503")
          /\ UNCHANGED cases_db
       \/ /\ models_loaded
          /\ \E raised \in BOOLEAN :
                IF raised
                THEN \* an exception inside the try block
                     /\ response' = Answer("analyze_case", "500")
                     /\ UNCHANGED cases_db
                ELSE /\ Len(cases_db) < MaxCases
                     /\ \E p \in Predictions :
                          /\ cases_db' = Append(cases_db,
                                 NewCase(MakeCaseId(now, Len(cases_db)),
                                         p[1], Clip(p[2]), now))
                          /\ response' = Answer("analyze_case", "200")
    /\ UNCHANGED <<program, now, models_loaded, approvals_db, workflowVars, requests, scoringVars>>

\* ApprovalRecord that files the officer's decision as the AI recommendation
ApprovalRecord_DecisionAsRecommendation(case, officer_id, decision, notes, t) ==
    [case_id |-> case.case_id,
     officer_id |-> officer_id,
     decision |-> decision,
     officer_notes |-> notes,
     timestamp |-> t,
     ai_recommendation |-> decision,
     ai_risk_score |-> case.risk_score]

\* the record approve_case appends to approvals_db
ApprovalRecord(case, officer_id, decision, notes, t) ==
    [case_id |-> case.case_id,
     officer_id |-> officer_id,
     decision |-> decision,
     officer_notes |-> notes,
     timestamp |-> t,
     ai_recommendation |-> case.recommended_action,
     ai_risk_score |-> case.risk_score]

\* DecidedCase that records the officer and leaves the status as it was
DecidedCase_StatusKept(case, officer_id, decision, notes, t) ==
    [case EXCEPT !.officer_id = officer_id,
                 !.officer_notes = notes,
                 !.approval_timestamp = t]

\* the case dict after approve_case's four assignments
DecidedCase(case, officer_id, decision, notes, t) ==
    [case EXCEPT !.status = decision,
                 !.officer_id = officer_id,
                 !.officer_notes = notes,
                 !.approval_timestamp = t]

\* approve_case without the already-processed check
approve_case_call_NoStatusCheck(case_id, officer_id, decision, notes) ==
    LET i == FindFirst(cases_db, case_id)
    IN  IF i = 0
        THEN /\ response' = Answer("approve_case", "404")
             /\ UNCHANGED <<cases_db, approvals_db>>
        ELSE /\ cases_db' = [cases_db EXCEPT
                   ![i] = DecidedCase(cases_db[i], officer_id, decision, notes, now)]
             /\ approvals_db' = Append(approvals_db,
                   ApprovalRecord(cases_db'[i], officer_id, decision, notes, now))
             /\ response' = Answer("approve_case", "200")

\* approve_case that answers a repeated approval with a silent success
approve_case_call_SilentSuccess(case_id, officer_id, decision, notes) ==
    LET i == FindFirst(cases_db, case_id)
    IN  IF i = 0
        THEN /\ response' = Answer("approve_case", "404")
             /\ UNCHANGED <<cases_db, approvals_db>>
        ELSE IF cases_db[i].status # "PENDING_APPROVAL"
        THEN /\ response' = Answer("approve_case", "200")
             /\ UNCHANGED <<cases_db, approvals_db>>
        ELSE /\ cases_db' = [cases_db EXCEPT
                   ![i] = DecidedCase(cases_db[i], officer_id, decision, notes, now)]
             /\ approvals_db' = Append(approvals_db,
                   ApprovalRecord(cases_db'[i], officer_id, decision, notes, now))
             /\ response' = Answer("approve_case", "200")

\* POST /approve_case with one request body
approve_case_call(case_id, officer_id, decision, notes) ==
    LET i == FindFirst(cases_db, case_id)
    IN  IF i = 0
        THEN /\ response' = Answer("approve_case", "404")
             /\ UNCHANGED <<cases_db, approvals_db>>
        ELSE IF cases_db[i].status # "PENDING_APPROVAL"
        THEN /\ response' = Answer("approve_case", "400")
             /\ UNCHANGED <<cases_db, approvals_db>>
        ELSE /\ cases_db' = [cases_db EXCEPT
                   ![i] = DecidedCase(cases_db[i], officer_id, decision, notes, now)]
             /\ approvals_db' = Append(approvals_db,
                   ApprovalRecord(cases_db'[i], officer_id, decision, notes, now))
             /\ response' = Answer("approve_case", "200")

approve_case ==
    /\ program = "backend"
    /\ \E case_id \in RequestCaseIds, officer_id \in OfficerIds, decision \in Decisions :
            approve_case_call(case_id, officer_id, decision, NotesOf(officer_id))
    /\ UNCHANGED <<program, now, models_loaded, workflowVars, requests, scoringVars>>

\* the values of the `limit` query parameter: any integer, 100 when the query
\* leaves it out (Optional[int] = 100, no range check)
Limits == {-1, 0, 1, 2, 100}

\* sorted(..., reverse=True) inserts x behind every element whose timestamp is
\* not older: the sort is stable, equal timestamps keep the list's order
RECURSIVE InsertNewestFirst(_, _)
InsertNewestFirst(sorted, x) ==
    IF sorted = <<>> THEN <<x>>
    ELSE IF Head(sorted).timestamp >= x.timestamp
         THEN <<Head(sorted)>> \o InsertNewestFirst(Tail(sorted), x)
         ELSE <<x>> \o sorted

\* sorted(list, key=lambda x: x.get('timestamp', ''), reverse=True)
RECURSIVE SortedNewestFirst(_)
SortedNewestFirst(list) ==
    IF list = <<>> THEN <<>>
    ELSE InsertNewestFirst(SortedNewestFirst(SubSeq(list, 1, Len(list) - 1)),
                           list[Len(list)])

\* list[:limit]: the first `limit` elements for a limit >= 0, all but the
\* last -limit elements for a negative limit
SliceTo(list, limit) ==
    IF limit >= 0
    THEN SubSeq(list, 1, IF limit < Len(list) THEN limit ELSE Len(list))
    ELSE SubSeq(list, 1, IF Len(list) + limit > 0 THEN Len(list) + limit ELSE 0)

\* the body GET /approvals returns
get_approvals_result(limit) ==
    [approvals |-> SliceTo(SortedNewestFirst(approvals_db), limit),
     total_count |-> Len(approvals_db)]

\* GET /approvals: builds a new sorted list, approvals_db itself is only read
get_approvals ==
    /\ program = "backend"
    /\ \E limit \in Limits :
          LET body == get_approvals_result(limit)
          IN  response' = Answer("get_approvals", "200")
    /\ UNCHANGED <<program, now, backendVars, workflowVars, requests, scoringVars>>

\* the values of the `status` and `risk_level` query parameters: left out
\* (None), empty, or a value
StatusArgs == {None, "", "PENDING_APPROVAL", "APPROVE"}
LevelFilterArgs == {None, "", "high"}

\* the list GET /cases returns
get_cases_result(status, risk_level, limit) ==
    LET by_status ==
            IF Truthy(status)
            THEN SelectSeq(cases_db, LAMBDA c : c.status = status)
            ELSE cases_db
        by_level ==
            IF Truthy(risk_level)
            THEN SelectSeq(by_status, LAMBDA c : c.risk_level = risk_level)
            ELSE by_status
    IN  SliceTo(SortedNewestFirst(by_level), limit)

\* GET /cases: works on a copy, cases_db itself is only read
get_cases ==
    /\ program = "backend"
    /\ \E status \in StatusArgs, risk_level \in LevelFilterArgs, limit \in Limits :
          LET body == get_cases_result(status, risk_level, limit)
          IN  response' = Answer("get_cases", "200")
    /\ UNCHANGED <<program, now, backendVars, workflowVars, requests, scoringVars>>

\* what became of a case by the time the store is queried
Fates == {"PENDING_APPROVAL", "APPROVE", "REJECT"}

\* the histories of a store of n cases: for each case the tick at which it was
\* analyzed, how it was scored and what became of it; cases are appended as
\* they are analyzed, so the ticks do not decrease along the store
Histories(n) ==
    {h \in [1..n -> (0..MaxTime) \X Predictions \X Fates] :
        \A i \in 1..n : \A j \in 1..n : i < j => h[i][1] <= h[j][1]}

\* cases_db after the analyze_case calls of history h and, at tick MaxTime,
\* the first officer's approve_case calls for the cases that were decided
StoreOf(h) ==
    [i \in DOMAIN h |->
        LET case == NewCase(MakeCaseId(h[i][1], i - 1),
                            h[i][2][1], Clip(h[i][2][2]), h[i][1])
        IN  IF h[i][3] = "PENDING_APPROVAL" THEN case
            ELSE DecidedCase(case, "OFFICER_123", h[i][3],
                             NotesOf("OFFICER_123"), MaxTime)]

\* approvals_db after the same calls
RECURSIVE ApprovalsFor(_)
ApprovalsFor(db) ==
    IF db = <<>> THEN <<>>
    ELSE LET earlier == ApprovalsFor(SubSeq(db, 1, Len(db) - 1))
             case == db[Len(db)]
         IN  IF case.status = "PENDING_APPROVAL" THEN earlier
             ELSE Append(earlier, ApprovalRecord(case, case.officer_id, case.status,
                                                 case.officer_notes, MaxTime))

\* the service some time after startup: cases were analyzed at various ticks
\* and some of them decided
InitCases ==
    /\ program = "backend"
    /\ now = MaxTime
    /\ models_loaded = TRUE
    /\ \E n \in 0..MaxCases : \E h \in Histories(n) : cases_db = StoreOf(h)
    /\ approvals_db = ApprovalsFor(cases_db)
    /\ approval_log = <<>>
    /\ audit_log = <<>>
    /\ requests = <<>>
    /\ risk_model = LoadedModel("by_income")
    /\ engine = [client |-> None, deployment_name |-> None]
    /\ response = NoResponse

NextCases == get_cases \/ get_approvals

SpecCases == InitCases /\ [][NextCases]_vars

-----------------------------------------------------------------------------
(* backend/main.py served concurrently: several approve_case requests are in
   flight at once.  Every handler is an `async def` coroutine on the one event
   loop of the server process, and approve_case contains no await: once the
   loop starts the handler it runs to its return (or its HTTPException)
   before any other handler runs.  The scheduling points are the arrival of
   a request and the start of a handler. *)

\* the scores of the first, second, third ... request analyzed
Scored(i) ==
    <<<<"high", 130>>, <<"medium", 75>>, <<"low", -5>>>>[((i - 1) % 3) + 1]

\* cases_db after lifespan and n successful analyze_case calls
RECURSIVE AnalyzedStore(_)
AnalyzedStore(n) ==
    IF n = 0 THEN <<>>
    ELSE LET db == AnalyzedStore(n - 1)
         IN  Append(db, NewCase(MakeCaseId(0, Len(db)),
                                Scored(n)[1], Clip(Scored(n)[2]), 0))

\* a client with no request in flight
Idle == [pc |-> "idle", case_id |-> None, decision |-> None, code |-> None,
         pending_on_arrival |-> FALSE]

\* the server already analyzed some cases; no approval was asked for yet
InitConcurrent ==
    /\ program = "backend"
    /\ now = 0
    /\ models_loaded = TRUE
    /\ \E n \in 1..MaxCases : cases_db = AnalyzedStore(n)
    /\ approvals_db = <<>>
    /\ approval_log = <<>>
    /\ audit_log = <<>>
    /\ requests = [o \in OfficerIds |-> Idle]
    /\ risk_model = LoadedModel("by_income")
    /\ engine = [client |-> None, deployment_name |-> None]
    /\ response = NoResponse

\* an officer's client posts /approve_case; the request waits for the loop.
\* pending_on_arrival notes whether the case was PENDING_APPROVAL at that time.
receive_approve_case ==
    /\ program = "backend"
    /\ \E o \in OfficerIds, i \in 1..Len(cases_db), d \in Decisions :
          /\ requests[o].pc \in {"idle", "done"}
          /\ requests' = [requests EXCEPT ![o] =
                 [pc |-> "received", case_id |-> cases_db[i].case_id,
                  decision |-> d, code |-> None,
                  pending_on_arrival |-> cases_db[i].status = "PENDING_APPROVAL"]]
    /\ UNCHANGED <<program, now, backendVars, workflowVars, scoringVars, response>>

\* a handler whose status check and status write are separate steps, with
\* other handlers free to run in between
run_approve_case_Split(o) ==
    LET r == requests[o]
        i == FindFirst(cases_db, r.case_id)
    IN  \/ /\ r.pc = "received"
           /\ IF i # 0 /\ cases_db[i].status = "PENDING_APPROVAL"
              THEN /\ requests' = [requests EXCEPT ![o].pc = "checked"]
                   /\ UNCHANGED <<cases_db, approvals_db, response>>
              ELSE /\ approve_case_call(r.case_id, o, r.decision, NotesOf(o))
                   /\ requests' = [requests EXCEPT ![o].pc = "done",
                                                   ![o].code = response'.code]
        \/ /\ r.pc = "checked"
           /\ approve_case_call_NoStatusCheck(r.case_id, o, r.decision, NotesOf(o))
           /\ requests' = [requests EXCEPT ![o].pc = "done",
                                           ![o].code = response'.code]

\* the event loop runs the handler of one waiting request, lookup, check and
\* writes together, and the client gets the answer
run_approve_case(o) ==
    LET r == requests[o]
    IN  /\ r.pc = "received"
        /\ approve_case_call(r.case_id, o, r.decision, NotesOf(o))
        /\ requests' = [requests EXCEPT ![o].pc = "done",
                                        ![o].code = response'.code]

event_loop ==
    /\ program = "backend"
    /\ \E o \in OfficerIds : run_approve_case(o)
    /\ UNCHANGED <<program, now, models_loaded, workflowVars, scoringVars>>

NextConcurrent == receive_approve_case \/ event_loop

SpecConcurrent == InitConcurrent /\ [][NextConcurrent]_vars

-----------------------------------------------------------------------------
(* step5_human_in_loop.py: ApprovalWorkflow *)

\* the arguments of create_approval_request: case_id, ai_recommendation,
\* ai_risk_score, ai_explanation
CreateRequests ==
    {<<"CASE_001", "URGENT_REVIEW", 75, "urgent attention">>,
     <<"CASE_002", "STANDARD_REVIEW", 45, "standard review">>,
     <<"CASE_001", "ROUTINE_REVIEW", 10, "in good standing">>,
     <<"", "ROUTINE_REVIEW", 10, "in good standing">>}

\* the case ids process_human_approval and get_approval_history are called with
WorkflowCaseIds == {"", "CASE_001", "CASE_002", "CASE_404"}

\* the decision strings process_human_approval is called with
WorkflowDecisions == {"APPROVE", "REJECT", "MAYBE"}

\* the dict create_approval_request builds
NewApprovalRequest(case_id, ai_recommendation, ai_risk_score, ai_explanation, t) ==
    [case_id |-> case_id,
     ai_recommendation |-> ai_recommendation,
     ai_risk_score |-> ai_risk_score,
     ai_explanation |-> ai_explanation,
     status |-> "PENDING_APPROVAL",
     created_at |-> t,
     human_decision |-> None,
     officer_id |-> None,
     officer_notes |-> None,
     approved_at |-> None]

create_approval_request_call(case_id, ai_recommendation, ai_risk_score, ai_explanation) ==
    /\ approval_log' = Append(approval_log,
           NewApprovalRequest(case_id, ai_recommendation, ai_risk_score,
                              ai_explanation, now))
    /\ response' = Answer("create_approval_request", "ok")
    /\ UNCHANGED audit_log

create_approval_request ==
    /\ program = "workflow"
    /\ Len(approval_log) < MaxLog
    /\ \E r \in CreateRequests : create_approval_request_call(r[1], r[2], r[3], r[4])
    /\ UNCHANGED <<program, now, backendVars, requests, scoringVars>>

\* _check_decision_alignment that also counts a rejected STANDARD_REVIEW case
\* as an override
_check_decision_alignment_Symmetric(approval) ==
    IF approval.ai_recommendation = "URGENT_REVIEW" /\ approval.human_decision = "APPROVE"
    THEN "OVERRIDE"
    ELSE IF approval.ai_recommendation \in {"ROUTINE_REVIEW", "STANDARD_REVIEW"}
            /\ approval.human_decision = "REJECT"
    THEN "OVERRIDE"
    ELSE "ALIGNED"

_check_decision_alignment(approval) ==
    IF approval.ai_recommendation = "URGENT_REVIEW" /\ approval.human_decision = "APPROVE"
    THEN "OVERRIDE"
    ELSE IF approval.ai_recommendation = "ROUTINE_REVIEW" /\ approval.human_decision = "REJECT"
    THEN "OVERRIDE"
    ELSE "ALIGNED"

\* the audit entry _log_approval prints
_log_approval(approval, t) ==
    [timestamp |-> t,
     case_id |-> approval.case_id,
     officer_id |-> approval.officer_id,
     ai_recommendation |-> approval.ai_recommendation,
     ai_risk_score |-> approval.ai_risk_score,
     human_decision |-> approval.human_decision,
     officer_notes |-> approval.officer_notes,
     decision_alignment |-> _check_decision_alignment(approval)]

\* an update that also clears the explanation
DecidedApproval_ExplanationDropped(approval, officer_id, decision, notes, t) ==
    [approval EXCEPT !.human_decision = decision,
                     !.officer_id = officer_id,
                     !.officer_notes = notes,
                     !.status = IF decision = "APPROVE" THEN "APPROVED" ELSE "REJECTED",
                     !.approved_at = t,
                     !.ai_explanation = None]

\* an update whose status is APPROVED whatever the decision
DecidedApproval_AlwaysApproved(approval, officer_id, decision, notes, t) ==
    [approval EXCEPT !.human_decision = decision,
                     !.officer_id = officer_id,
                     !.officer_notes = notes,
                     !.status = "APPROVED",
                     !.approved_at = t]

\* the record after process_human_approval's five assignments
DecidedApproval(approval, officer_id, decision, notes, t) ==
    [approval EXCEPT !.human_decision = decision,
                     !.officer_id = officer_id,
                     !.officer_notes = notes,
                     !.status = IF decision = "APPROVE" THEN "APPROVED" ELSE "REJECTED",
                     !.approved_at = t]

\* process_human_approval that takes every decision other than APPROVE as a
\* rejection
process_human_approval_call_NoValidation(case_id, officer_id, decision, notes) ==
    LET i == FindFirst(approval_log, case_id)
    IN  IF i = 0
        THEN /\ response' = Answer("process_human_approval", "not_found")
             /\ UNCHANGED <<approval_log, audit_log>>
        ELSE IF approval_log[i].status # "PENDING_APPROVAL"
        THEN /\ response' = Answer("process_human_approval", "already_processed")
             /\ UNCHANGED <<approval_log, audit_log>>
        ELSE LET decided == DecidedApproval(approval_log[i], officer_id, decision, notes, now)
             IN  /\ approval_log' = [approval_log EXCEPT ![i] = decided]
                 /\ audit_log' = Append(audit_log, _log_approval(decided, now))
                 /\ response' = Answer("process_human_approval", "ok")

\* process_human_approval that writes the audit entry before it validates
process_human_approval_call_LogsFirst(case_id, officer_id, decision, notes) ==
    LET i == FindFirst(approval_log, case_id)
    IN  IF i = 0
        THEN /\ response' = Answer("process_human_approval", "not_found")
             /\ UNCHANGED <<approval_log, audit_log>>
        ELSE IF approval_log[i].status # "PENDING_APPROVAL"
        THEN /\ response' = Answer("process_human_approval", "already_processed")
             /\ audit_log' = Append(audit_log, _log_approval(approval_log[i], now))
             /\ UNCHANGED approval_log
        ELSE IF decision \notin {"APPROVE", "REJECT"}
        THEN /\ response' = Answer("process_human_approval", "invalid_decision")
             /\ audit_log' = Append(audit_log, _log_approval(approval_log[i], now))
             /\ UNCHANGED approval_log
        ELSE LET decided == DecidedApproval(approval_log[i], officer_id, decision, notes, now)
             IN  /\ approval_log' = [approval_log EXCEPT ![i] = decided]
                 /\ audit_log' = Append(audit_log, _log_approval(approval_log[i], now))
                 /\ response' = Answer("process_human_approval", "ok")

\* process_human_approval that looks for the first pending record of the case
process_human_approval_call_FirstPending(case_id, officer_id, decision, notes) ==
    LET hits == {j \in 1..Len(approval_log) :
                    /\ approval_log[j].case_id = case_id
                    /\ approval_log[j].status = "PENDING_APPROVAL"}
        i == IF hits = {} THEN FindFirst(approval_log, case_id)
             ELSE CHOOSE j \in hits : \A k \in hits : j <= k
    IN  IF i = 0
        THEN /\ response' = Answer("process_human_approval", "not_found")
             /\ UNCHANGED <<approval_log, audit_log>>
        ELSE IF approval_log[i].status # "PENDING_APPROVAL"
        THEN /\ response' = Answer("process_human_approval", "already_processed")
             /\ UNCHANGED <<approval_log, audit_log>>
        ELSE IF decision \notin {"APPROVE", "REJECT"}
        THEN /\ response' = Answer("process_human_approval", "invalid_decision")
             /\ UNCHANGED <<approval_log, audit_log>>
        ELSE LET decided == DecidedApproval(approval_log[i], officer_id, decision, notes, now)
             IN  /\ approval_log' = [approval_log EXCEPT ![i] = decided]
                 /\ audit_log' = Append(audit_log, _log_approval(decided, now))
                 /\ response' = Answer("process_human_approval", "ok")

\* process_human_approval without the already-processed check
process_human_approval_call_NoStatusCheck(case_id, officer_id, decision, notes) ==
    LET i == FindFirst(approval_log, case_id)
    IN  IF i = 0
        THEN /\ response' = Answer("process_human_approval", "not_found")
             /\ UNCHANGED <<approval_log, audit_log>>
        ELSE IF decision \notin {"APPROVE", "REJECT"}
        THEN /\ response' = Answer("process_human_approval", "invalid_decision")
             /\ UNCHANGED <<approval_log, audit_log>>
        ELSE LET decided == DecidedApproval(approval_log[i], officer_id, decision, notes, now)
             IN  /\ approval_log' = [approval_log EXCEPT ![i] = decided]
                 /\ audit_log' = Append(audit_log, _log_approval(decided, now))
                 /\ response' = Answer("process_human_approval", "ok")

process_human_approval_call(case_id, officer_id, decision, notes) ==
    LET i == FindFirst(approval_log, case_id)
    IN  IF i = 0
        THEN /\ response' = Answer("process_human_approval", "not_found")
             /\ UNCHANGED <<approval_log, audit_log>>
        ELSE IF approval_log[i].status # "PENDING_APPROVAL"
        THEN /\ response' = Answer("process_human_approval", "already_processed")
             /\ UNCHANGED <<approval_log, audit_log>>
        ELSE IF decision \notin {"APPROVE", "REJECT"}
        THEN /\ response' = Answer("process_human_approval", "invalid_decision")
             /\ UNCHANGED <<approval_log, audit_log>>
        ELSE LET decided == DecidedApproval(approval_log[i], officer_id, decision, notes, now)
             IN  /\ approval_log' = [approval_log EXCEPT ![i] = decided]
                 /\ audit_log' = Append(audit_log, _log_approval(decided, now))
                 /\ response' = Answer("process_human_approval", "ok")

process_human_approval ==
    /\ program = "workflow"
    /\ \E case_id \in WorkflowCaseIds, officer_id \in OfficerIds,
          decision \in WorkflowDecisions :
            process_human_approval_call(case_id, officer_id, decision, NotesOf(officer_id))
    /\ UNCHANGED <<program, now, backendVars, requests, scoringVars>>

\* get_pending_approvals that filters on "not approved"
RECURSIVE get_pending_approvals_NotApproved(_)
get_pending_approvals_NotApproved(log) ==
    IF log = <<>> THEN <<>>
    ELSE IF Head(log).status # "APPROVED"
         THEN <<Head(log)>> \o get_pending_approvals_NotApproved(Tail(log))
         ELSE get_pending_approvals_NotApproved(Tail(log))

\* [a for a in self.approval_log if a['status'] == PENDING_APPROVAL]
RECURSIVE get_pending_approvals(_)
get_pending_approvals(log) ==
    IF log = <<>> THEN <<>>
    ELSE IF Head(log).status = "PENDING_APPROVAL"
         THEN <<Head(log)>> \o get_pending_approvals(Tail(log))
         ELSE get_pending_approvals(Tail(log))

\* [a for a in log if a['case_id'] == case_id]
RECURSIVE FilterByCaseId(_, _)
FilterByCaseId(log, case_id) ==
    IF log = <<>> THEN <<>>
    ELSE IF Head(log).case_id = case_id
         THEN <<Head(log)>> \o FilterByCaseId(Tail(log), case_id)
         ELSE FilterByCaseId(Tail(log), case_id)

get_approval_history(log, case_id) ==
    IF Truthy(case_id) THEN FilterByCaseId(log, case_id) ELSE log

-----------------------------------------------------------------------------
(* backend/models.py and backend/explanation.py: the two components that
   analyze_case calls, here called on their own *)

\* what the classifier can answer, and any other string a caller may pass on
RiskLevels == {"low", "medium", "high"}
LevelArgs == RiskLevels \cup {"HIGH"}

\* what the regressor can answer
RawScores == {-5, 0, 29, 30, 59, 60, 100, 130}

\* the risk_score arguments of generate_explanation
ScoreArgs == {0, 29, 30, 59, 60, 100}

\* how the external chat-completion call goes, when it is made: building the
\* prompt raises, the call raises, the reply has no text, or a text comes back
Externals == {"prompt_raises", "call_raises", "no_content", "text"}

\* a call that ended in an exception
Raised == [raised |-> TRUE]

\* load_model: an existing model file sets is_trained, a missing or broken
\* one raises
load_model ==
    /\ program = "scoring"
    /\ \E readable \in BOOLEAN :
          IF readable
          THEN /\ \E forest \in Forests : risk_model' = LoadedModel(forest)
               /\ response' = Answer("load_model", "ok")
          ELSE /\ UNCHANGED risk_model
               /\ response' = Answer("load_model", "raised")
    /\ UNCHANGED <<program, now, backendVars, workflowVars, requests, engine>>

\* predict_risk without the is_trained guard
predict_risk_Unguarded(model, level, raw) ==
    [raised |-> FALSE, risk_level |-> level, risk_score |-> Clip(raw)]

\* WelfareRiskModel.predict_risk for one row, the classifier answering level
\* and the regressor raw
predict_risk_call(model, level, raw) ==
    IF ~model.is_trained THEN Raised
    ELSE [raised |-> FALSE, risk_level |-> level, risk_score |-> Clip(raw)]

\* what a component call answered, with its arguments
Called(op, args, result) == [op |-> op, code |-> IF result.raised THEN "raised" ELSE "ok",
                             args |-> args, result |-> result]

predict_risk ==
    /\ program = "scoring"
    /\ \E level \in RiskLevels, raw \in RawScores :
          response' = Called("predict_risk", [level |-> level, raw |-> raw],
                             predict_risk_call(risk_model, level, raw))
    /\ UNCHANGED <<program, now, backendVars, workflowVars, requests, scoringVars>>

\* int(risk_score) inside the message, as the digits the f-string prints
ScoreShown(risk_score) == IntToStr(risk_score)

\* _generate_mock_explanation keyed on risk_level instead of risk_score
_generate_mock_explanation_ByLevel(risk_score, risk_level) ==
    IF risk_level = "high"
    THEN [template |-> "high", shown |-> ScoreShown(risk_score)]
    ELSE IF risk_level = "medium"
    THEN [template |-> "moderate", shown |-> ScoreShown(risk_score)]
    ELSE [template |-> "low", shown |-> ScoreShown(risk_score)]

\* the fallback message: which of the three texts, and the score it shows
_generate_mock_explanation(risk_score, risk_level) ==
    IF risk_score >= 60
    THEN [template |-> "high", shown |-> ScoreShown(risk_score)]
    ELSE IF risk_score >= 30
    THEN [template |-> "moderate", shown |-> ScoreShown(risk_score)]
    ELSE [template |-> "low", shown |-> ScoreShown(risk_score)]

\* the text the external service wrote
GeneratedText == [template |-> "generated", shown |-> None]

\* generate_explanation without the try/except around the external call
generate_explanation_call_NoExcept(eng, risk_score, risk_level, external) ==
    IF eng.client # None /\ Truthy(eng.deployment_name) /\ external # "text"
    THEN Raised
    ELSE [raised |-> FALSE,
          explanation |->
              IF eng.client # None /\ Truthy(eng.deployment_name)
              THEN GeneratedText
              ELSE _generate_mock_explanation(risk_score, risk_level),
          recommended_action |-> RecommendedAction(risk_level),
          risk_score |-> risk_score,
          risk_level |-> risk_level]

\* generate_explanation that takes the action from the score thresholds
generate_explanation_call_ActionByScore(eng, risk_score, risk_level, external) ==
    [raised |-> FALSE,
     explanation |->
         IF eng.client # None /\ Truthy(eng.deployment_name) /\ external = "text"
         THEN GeneratedText
         ELSE _generate_mock_explanation(risk_score, risk_level),
     recommended_action |->
         IF risk_score >= 60 THEN "URGENT_REVIEW"
         ELSE IF risk_score >= 30 THEN "STANDARD_REVIEW"
         ELSE "ROUTINE_REVIEW",
     risk_score |-> risk_score,
     risk_level |-> risk_level]

\* ExplanationEngine.generate_explanation: the external text if the client is
\* configured and the whole try block went through, the fallback otherwise
generate_explanation_call(eng, risk_score, risk_level, external) ==
    [raised |-> FALSE,
     explanation |->
         IF eng.client # None /\ Truthy(eng.deployment_name) /\ external = "text"
         THEN GeneratedText
         ELSE _generate_mock_explanation(risk_score, risk_level),
     recommended_action |-> RecommendedAction(risk_level),
     risk_score |-> risk_score,
     risk_level |-> risk_level]

generate_explanation ==
    /\ program = "scoring"
    /\ \E risk_score \in ScoreArgs, risk_level \in LevelArgs, external \in Externals :
          response' = Called("generate_explanation",
                             [risk_score |-> risk_score, risk_level |-> risk_level,
                              external |-> external],
                             generate_explanation_call(engine, risk_score,
                                                       risk_level, external))
    /\ UNCHANGED <<program, now, backendVars, workflowVars, requests, scoringVars>>

-----------------------------------------------------------------------------
(* backend/models.py: feature preparation, and the scoring lines of
   analyze_case that use it on a one-row batch *)

\* the rows of a batch: CitizenCase fields, citizen_id left out
Rows ==
    [income : {12000, 45000},
     last_document_update_months : {6},
     scheme_type : SchemeTypes,
     past_benefit_interruptions : {1}]

\* the batches prepare_features is called with: one row or several
Batches == UNION {[1..n -> Rows] : n \in 1..MaxBatch}

\* LabelEncoder.transform: the position of each label in classes_, from 0
Transform(classes, labels) ==
    [i \in DOMAIN labels |->
        (CHOOSE k \in DOMAIN classes : classes[k] = labels[i]) - 1]

\* df_encoded[features].values for a column of codes
FeatureMatrix(df, codes) ==
    [i \in DOMAIN df |->
        <<df[i].income, df[i].last_document_update_months, codes[i],
          df[i].past_benefit_interruptions>>]

\* prepare_features that keeps the encoder of the model file and only
\* transforms
prepare_features_call_LoadedEncoder(model, df) ==
    LET labels == [i \in DOMAIN df |-> df[i].scheme_type]
        classes == Classes(<<"subsidy", "pension", "ration">>)
    IN  [model |-> [model EXCEPT !.classes = classes],
         X |-> FeatureMatrix(df, Transform(classes, labels))]

\* prepare_features: label_encoder.fit_transform on the batch's scheme_type
\* column refits the encoder, then the four feature columns are returned
prepare_features_call(model, df) ==
    LET labels == [i \in DOMAIN df |-> df[i].scheme_type]
        classes == Classes(labels)
    IN  [model |-> [model EXCEPT !.classes = classes],
         X |-> FeatureMatrix(df, Transform(classes, labels))]

prepare_features ==
    /\ program = "scoring"
    /\ \E df \in Batches :
          LET out == prepare_features_call(risk_model, df)
          IN  /\ risk_model' = out.model
              /\ response' = Called("prepare_features", [df |-> df],
                                    [raised |-> FALSE, X |-> out.X])
    /\ UNCHANGED <<program, now, backendVars, workflowVars, requests, engine>>

\* what the classifier and the regressor of a forest answer for one row x
ForestPredict(forest, x) ==
    IF forest = "by_scheme"
    THEN IF x[3] = 0 /\ x[1] > 25000 THEN <<"high", 130>>
         ELSE IF x[3] = 0 THEN <<"medium", 75>>
         ELSE <<"low", -5>>
    ELSE IF x[1] > 25000 THEN <<"low", -5>> ELSE <<"medium", 75>>

\* scoring with the encoder of the model file instead of a refitted one
score_case_call_LoadedEncoder(model, case) ==
    LET out == prepare_features_call_LoadedEncoder(model, <<case>>)
        answer == ForestPredict(out.model.forest, out.X[1])
        predicted == predict_risk_call(out.model, answer[1], answer[2])
    IN  [model |-> out.model,
         result |->
             IF predicted.raised THEN Raised
             ELSE [raised |-> FALSE,
                   X |-> out.X,
                   risk_level |-> predicted.risk_level,
                   risk_score |-> predicted.risk_score,
                   recommended_action |-> RecommendedAction(predicted.risk_level)]]

\* analyze_case from the request to the prediction: a DataFrame of the one
\* case, prepare_features, predict_risk on the resulting row
score_case_call(model, case) ==
    LET out == prepare_features_call(model, <<case>>)
        answer == ForestPredict(out.model.forest, out.X[1])
        predicted == predict_risk_call(out.model, answer[1], answer[2])
    IN  [model |-> out.model,
         result |->
             IF predicted.raised THEN Raised
             ELSE [raised |-> FALSE,
                   X |-> out.X,
                   risk_level |-> predicted.risk_level,
                   risk_score |-> predicted.risk_score,
                   recommended_action |-> RecommendedAction(predicted.risk_level)]]

score_case ==
    /\ program = "scoring"
    /\ \E case \in Rows :
          LET out == score_case_call(risk_model, case)
          IN  /\ risk_model' = out.model
              /\ response' = Called("score_case", [case |-> case], out.result)
    /\ UNCHANGED <<program, now, backendVars, workflowVars, requests, engine>>

\* a WelfareRiskModel on its own, as step2's script and analyze_case use it
InitFeatures ==
    /\ program = "scoring"
    /\ now = 0
    /\ models_loaded = FALSE
    /\ cases_db = <<>>
    /\ approvals_db = <<>>
    /\ approval_log = <<>>
    /\ audit_log = <<>>
    /\ requests = <<>>
    /\ risk_model = NewRiskModel
    /\ engine = [client |-> None, deployment_name |-> None]
    /\ response = NoResponse

NextFeatures == load_model \/ prepare_features \/ score_case

SpecFeatures == InitFeatures /\ [][NextFeatures]_vars

-----------------------------------------------------------------------------
(* step3_explanation_engine.py: the prompt and the mocked completion.  A text
   is the sequence of its words; a score is kept in tenths, as the one decimal
   the prompt prints. *)

\* risk scores in tenths: 75.5 is 755
Step3Scores == {0, 152, 299, 300, 455, 599, 600, 755, 1000}

\* format(risk_score, ".1f")
FormatScore(tenths) == IntToStr(tenths \div 10) \o "." \o Digit(tenths % 10)

\* float() of the digits the regular expression captured, in tenths; -1 when
\* the word is not a number \d+\.?\d*
ParseScore(word) ==
    IF \E n \in Step3Scores : FormatScore(n) = word
    THEN CHOOSE n \in Step3Scores : FormatScore(n) = word
    ELSE -1

\* str.upper() and str.lower() on the words that the tests below can tell apart
Upper(word) ==
    CASE word = "high" -> "HIGH" [] word = "medium" -> "MEDIUM" [] word = "low" -> "LOW"
      [] word = "risk" -> "RISK" [] OTHER -> word

Lower(word) ==
    CASE word = "HIGH" -> "high" [] word = "High" -> "high"
      [] word = "MEDIUM" -> "medium" [] word = "LOW" -> "low"
      [] word = "RISK" -> "risk" [] word = "Risk" -> "risk"
      [] word = "Score:" -> "score:" [] word = "Level:" -> "level:"
      [] OTHER -> word

\* model_reasons as get_model_reasons returns it: the feature names
FeatureNames == <<"income", "last_document_update_months", "scheme_type_encoded",
                  "past_benefit_interruptions">>

\* the line of the prompt for one feature
RECURSIVE FeatureLines(_)
FeatureLines(names) ==
    IF names = <<>> THEN <<>>
    ELSE <<"-", Head(names) \o ":", "value=", "importance=">> \o FeatureLines(Tail(names))

\* the words of the prompt create_explanation_prompt builds
create_explanation_prompt(risk_score, risk_level, model_reasons, citizen_data) ==
    <<"You", "are", "a", "helpful", "AI", "assistant", "explaining", "welfare",
      "case", "decisions", "to", "citizens", "in", "simple,", "clear", "language.",
      "CASE", "INFORMATION:",
      "-", "Risk", "Score:", FormatScore(risk_score), "(out", "of", "100)",
      "-", "Risk", "Level:", Upper(risk_level),
      "-", "Income:", citizen_data.income,
      "-", "Last", "Document", "Update:", "6.0", "months", "ago",
      "-", "Scheme", "Type:", citizen_data.scheme_type,
      "-", "Past", "Benefit", "Interruptions:", "1",
      "MODEL", "REASONING:">>
    \o FeatureLines(model_reasons)
    \o <<"TASK:", "Generate", "a", "clear,", "empathetic,", "and", "actionable",
         "explanation", "for", "the", "citizen", "that:",
         "1.", "Explains", "what", "the", "risk", "score", "means", "in", "simple", "terms",
         "2.", "Identifies", "the", "main", "factors", "contributing", "to", "the", "risk",
         "3.", "Provides", "clear", "next", "steps", "the", "citizen", "should", "take",
         "4.", "Uses", "a", "respectful,", "helpful", "tone",
         "5.", "Avoids", "technical", "jargon",
         "6.", "Includes", "contact", "information", "for", "support",
         "Format", "the", "response", "as", "a", "clear,", "well-structured",
         "message", "suitable", "for", "sending", "to", "a", "citizen.">>

\* "high risk" in prompt.lower()
HasHighRisk(prompt) ==
    \E i \in 1..(Len(prompt) - 1) :
        Lower(prompt[i]) = "high" /\ Lower(prompt[i + 1]) \in {"risk", "risk.", "risk,"}

\* "risk_score" in prompt
HasRiskScoreKey(prompt) ==
    \E i \in 1..Len(prompt) : prompt[i] \in {"risk_score", "risk_score:"}

\* re.search(r'risk_score[:\s]+(\d+\.?\d*)', prompt): the places where the key
\* is followed by a number
ScoreMatches(prompt) ==
    {i \in 1..(Len(prompt) - 1) :
        prompt[i] \in {"risk_score", "risk_score:"} /\ ParseScore(prompt[i + 1]) >= 0}

\* the text that does not depend on the prompt
DefaultResponse == [template |-> "default", shown |-> None]

\* MockAzureOpenAI.generate_explanation: a template by the score found in the
\* prompt, if the prompt says "high risk" or holds the key risk_score
MockAzureOpenAI_generate_explanation(prompt) ==
    IF HasHighRisk(prompt) \/ HasRiskScoreKey(prompt)
    THEN LET hits == ScoreMatches(prompt)
             risk_score == IF HasRiskScoreKey(prompt) /\ hits # {}
                           THEN ParseScore(prompt[(CHOOSE i \in hits : \A j \in hits : i <= j) + 1])
                           ELSE 0
         IN  IF risk_score >= 60 * 10
             THEN [template |-> "high", shown |-> ScoreShown(risk_score \div 10)]
             ELSE IF risk_score >= 30 * 10
             THEN [template |-> "moderate", shown |-> ScoreShown(risk_score \div 10)]
             ELSE [template |-> "low", shown |-> ScoreShown(risk_score \div 10)]
    ELSE DefaultResponse

\* prompts written by hand, as a caller of the mock may pass them
HandPrompts ==
    {<<"risk_score:", FormatScore(n)>> : n \in Step3Scores}
        \cup {<<"This", "is", "a", "High", "risk", "case">>,
              <<"risk_score", "unknown">>,
              <<"Explain", "the", "decision">>}

MockAzureOpenAI_call ==
    /\ program = "scoring"
    /\ \E prompt \in HandPrompts :
          response' = Called("MockAzureOpenAI.generate_explanation",
                             [prompt |-> prompt],
                             [raised |-> FALSE,
                              explanation |-> MockAzureOpenAI_generate_explanation(prompt)])
    /\ UNCHANGED <<program, now, backendVars, workflowVars, requests, scoringVars>>

\* the citizen_data of step 3's callers: the printed income and the scheme type
Step3Citizens == [income : {"12,000.00", "45,000.00"}, scheme_type : SchemeTypes]

\* step 3's ExplanationEngine.generate_explanation
step3_generate_explanation_call(risk_score, risk_level, model_reasons, citizen_data) ==
    LET prompt == create_explanation_prompt(risk_score, risk_level, model_reasons,
                                            citizen_data)
    IN  [raised |-> FALSE,
         explanation |-> MockAzureOpenAI_generate_explanation(prompt),
         recommended_action |-> RecommendedAction(risk_level),
         risk_score |-> risk_score,
         risk_level |-> risk_level]

step3_generate_explanation ==
    /\ program = "scoring"
    /\ \E risk_score \in Step3Scores, risk_level \in RiskLevels,
          citizen_data \in Step3Citizens :
          response' = Called("step3.generate_explanation",
                             [risk_score |-> risk_score, risk_level |-> risk_level,
                              citizen_data |-> citizen_data],
                             step3_generate_explanation_call(risk_score, risk_level,
                                                             FeatureNames, citizen_data))
    /\ UNCHANGED <<program, now, backendVars, workflowVars, requests, scoringVars>>

\* step 3 run on its own: an ExplanationEngine with its mock client
InitStep3 ==
    /\ program = "scoring"
    /\ now = 0
    /\ models_loaded = FALSE
    /\ cases_db = <<>>
    /\ approvals_db = <<>>
    /\ approval_log = <<>>
    /\ audit_log = <<>>
    /\ requests = <<>>
    /\ risk_model = NewRiskModel
    /\ engine = [client |-> None, deployment_name |-> "gpt-4"]
    /\ response = NoResponse

NextStep3 == step3_generate_explanation \/ MockAzureOpenAI_call

SpecStep3 == InitStep3 /\ [][NextStep3]_vars

-----------------------------------------------------------------------------

Next ==
    \/ lifespan
    \/ analyze_case
    \/ approve_case
    \/ get_approvals
    \/ create_approval_request
    \/ process_human_approval
    \/ load_model
    \/ predict_risk
    \/ generate_explanation

Spec == Init /\ [][Next]_vars

\* the same calls with the clock advancing between them
NextTimed == Next \/ Tick

SpecTimed == Init /\ [][NextTimed]_vars

-----------------------------------------------------------------------------
(* Properties *)

\* the approval records of the backend that carry a case id
ApprovalsOf(case_id) ==
    {k \in 1..Len(approvals_db) : approvals_db[k].case_id = case_id}

\* some stored case / workflow record has this id and was decided before
CaseDecided(case_id) ==
    \E i \in 1..Len(cases_db) :
        cases_db[i].case_id = case_id /\ cases_db[i].status # "PENDING_APPROVAL"

RecordDecided(case_id) ==
    \E i \in 1..Len(approval_log) :
        approval_log[i].case_id = case_id /\ approval_log[i].status # "PENDING_APPROVAL"

\* C1: in the backend every case that is no longer PENDING_APPROVAL has
\* exactly one approval record with its case_id, and every case still
\* PENDING_APPROVAL has none.
C1_OneApprovalPerDecidedCase ==
    \A i \in 1..Len(cases_db) :
        Cardinality(ApprovalsOf(cases_db[i].case_id)) =
            IF cases_db[i].status = "PENDING_APPROVAL" THEN 0 ELSE 1

\* a decided case and a pending one side by side, after a refused second
\* approval
C1_Witness ==
    /\ \E i, j \in 1..Len(cases_db) :
          /\ cases_db[i].status = "APPROVE"
          /\ cases_db[j].status = "PENDING_APPROVAL"
    /\ response = Answer("approve_case", "400")

\* C2: an approval call for a case_id that was decided before answers with a
\* conflict (HTTP 400 in the backend, the already-processed ValueError in the
\* workflow), whatever the officer and the decision, and changes neither the
\* case (status, officer_id, notes) nor the logs.
C2_SecondApprovalConflicts ==
    [][ /\ \A c \in RequestCaseIds :
              CaseDecided(c) =>
                  \A o \in OfficerIds, d \in Decisions :
                      approve_case_call(c, o, d, NotesOf(o))
                          => /\ response'.code = "400"
                             /\ cases_db' = cases_db
                             /\ approvals_db' = approvals_db
        /\ \A c \in WorkflowCaseIds :
              RecordDecided(c) =>
                  \A o \in OfficerIds, d \in WorkflowDecisions :
                      process_human_approval_call(c, o, d, NotesOf(o))
                          => /\ response'.code = "already_processed"
                             /\ approval_log' = approval_log
                             /\ audit_log' = audit_log
      ]_vars

\* the backend has just refused a second approval of a rejected case
C2_Witness ==
    /\ response = Answer("approve_case", "400")
    /\ \E i \in 1..Len(cases_db) :
          /\ cases_db[i].status = "REJECT"
          /\ cases_db[i].officer_id = "OFFICER_456"
    /\ Len(approvals_db) = 1

\* C3: a workflow record's status changes only from PENDING_APPROVAL to
\* APPROVED or to REJECTED; a record that is APPROVED or REJECTED keeps that
\* status in every later state, and no record leaves the log.
C3_StatusTransitions ==
    [][ /\ Len(approval_log') >= Len(approval_log)
        /\ \A i \in 1..Len(approval_log) :
              \/ approval_log'[i].status = approval_log[i].status
              \/ /\ approval_log[i].status = "PENDING_APPROVAL"
                 /\ approval_log'[i].status \in {"APPROVED", "REJECTED"}
      ]_vars

\* an approved record, after a later call for it was refused
C3_Witness ==
    /\ response = Answer("process_human_approval", "already_processed")
    /\ \E i \in 1..Len(approval_log) : approval_log[i].status = "APPROVED"

\* C4: analyze_case stores every new case as PENDING_APPROVAL with no officer,
\* and a case is in a decided status only through an approve_case call for its
\* case_id, whose officer_id and decision it then carries.
C4_NoDecisionWithoutOfficer ==
    [][ /\ \A i \in (Len(cases_db) + 1)..Len(cases_db') :
              /\ cases_db'[i].status = "PENDING_APPROVAL"
              /\ cases_db'[i].officer_id = None
        /\ \A i \in 1..Len(cases_db) :
              cases_db'[i].status # "PENDING_APPROVAL"
                  => \/ cases_db'[i] = cases_db[i]
                     \/ /\ cases_db[i].status = "PENDING_APPROVAL"
                        /\ \E o \in OfficerIds, d \in Decisions :
                              /\ approve_case_call(cases_db[i].case_id, o, d, NotesOf(o))
                              /\ cases_db'[i].officer_id = o
                              /\ cases_db'[i].status = d
                              /\ \E k \in 1..Len(approvals_db') :
                                    /\ approvals_db'[k].case_id = cases_db[i].case_id
                                    /\ approvals_db'[k].officer_id = o
                                    /\ approvals_db'[k].decision = d
      ]_vars

\* a low-risk case was analyzed and an officer then rejected it
C4_Witness ==
    /\ response = Answer("approve_case", "200")
    /\ \E i \in 1..Len(cases_db) :
          /\ cases_db[i].risk_level = "low"
          /\ cases_db[i].status = "REJECT"
          /\ cases_db[i].officer_id = "OFFICER_123"

\* C5: every audit entry's decision_alignment is OVERRIDE exactly when its
\* (ai_recommendation, human_decision) is (URGENT_REVIEW, APPROVE) or
\* (ROUTINE_REVIEW, REJECT), and ALIGNED for every other pair.
C5_DecisionAlignment ==
    \A k \in 1..Len(audit_log) :
        LET pair == <<audit_log[k].ai_recommendation, audit_log[k].human_decision>>
        IN  /\ audit_log[k].decision_alignment \in {"OVERRIDE", "ALIGNED"}
            /\ audit_log[k].decision_alignment = "OVERRIDE"
                  <=> pair \in {<<"URGENT_REVIEW", "APPROVE">>,
                                <<"ROUTINE_REVIEW", "REJECT">>}

\* the example of the spec (CASE_001, URGENT_REVIEW, approved: OVERRIDE) next
\* to a rejected STANDARD_REVIEW case, which is ALIGNED
C5_Witness ==
    \E k, l \in 1..Len(audit_log) :
        /\ audit_log[k].case_id = "CASE_001"
        /\ audit_log[k].ai_recommendation = "URGENT_REVIEW"
        /\ audit_log[k].human_decision = "APPROVE"
        /\ audit_log[k].decision_alignment = "OVERRIDE"
        /\ audit_log[l].ai_recommendation = "STANDARD_REVIEW"
        /\ audit_log[l].human_decision = "REJECT"
        /\ audit_log[l].decision_alignment = "ALIGNED"

\* C6: create_approval_request fails, and leaves the log as it was, when a
\* record with the same case_id is already in the log; otherwise it appends one
\* record with that case_id in state PENDING_APPROVAL.
C6_CreateRejectsDuplicate ==
    [][ \A r \in CreateRequests :
            create_approval_request_call(r[1], r[2], r[3], r[4])
                => IF \E i \in 1..Len(approval_log) : approval_log[i].case_id = r[1]
                   THEN /\ response'.code # "ok"
                        /\ approval_log' = approval_log
                   ELSE /\ response'.code = "ok"
                        /\ Len(approval_log') = Len(approval_log) + 1
                        /\ approval_log'[Len(approval_log')].case_id = r[1]
                        /\ approval_log'[Len(approval_log')].status = "PENDING_APPROVAL"
      ]_vars

\* the indices of the log's records that are PENDING_APPROVAL
PendingIndices == {i \in 1..Len(approval_log) : approval_log[i].status = "PENDING_APPROVAL"}

\* the k-th smallest element of a set of indices
KthOf(indices, k) ==
    CHOOSE i \in indices : Cardinality({j \in indices : j < i}) = k - 1

\* C7: get_pending_approvals() returns exactly the log's records whose status
\* is PENDING_APPROVAL, each once, in the order of the log; none of them is
\* APPROVED or REJECTED.
C7_PendingListing ==
    LET result == get_pending_approvals(approval_log)
    IN  /\ Len(result) = Cardinality(PendingIndices)
        /\ \A k \in 1..Len(result) :
              /\ result[k] = approval_log[KthOf(PendingIndices, k)]
              /\ result[k].status \notin {"APPROVED", "REJECTED"}

\* a rejected record followed by a pending one: only the second is listed
C7_Witness ==
    /\ Len(approval_log) = 2
    /\ approval_log[1].status = "REJECTED"
    /\ approval_log[2].status = "PENDING_APPROVAL"
    /\ get_pending_approvals(approval_log) = <<approval_log[2]>>

\* C8: an approval for a case_id that no stored record has is answered with
\* not-found (HTTP 404 in the backend, the not-found ValueError in the
\* workflow) and leaves the case store, the approval log and the workflow's
\* log and audit entries unchanged.
C8_UnknownCaseNotFound ==
    [][ /\ \A c \in RequestCaseIds :
              (\A i \in 1..Len(cases_db) : cases_db[i].case_id # c) =>
                  \A o \in OfficerIds, d \in Decisions :
                      approve_case_call(c, o, d, NotesOf(o))
                          => /\ response'.code = "404"
                             /\ cases_db' = cases_db
                             /\ approvals_db' = approvals_db
        /\ \A c \in WorkflowCaseIds :
              (\A i \in 1..Len(approval_log) : approval_log[i].case_id # c) =>
                  \A o \in OfficerIds, d \in WorkflowDecisions :
                      process_human_approval_call(c, o, d, NotesOf(o))
                          => /\ response'.code = "not_found"
                             /\ approval_log' = approval_log
                             /\ audit_log' = audit_log
      ]_vars

\* the backend answered 404 while it held a pending and a decided case
C8_Witness ==
    /\ response = Answer("approve_case", "404")
    /\ \E i, j \in 1..Len(cases_db) :
          /\ cases_db[i].status = "PENDING_APPROVAL"
          /\ cases_db[j].status # "PENDING_APPROVAL"
    /\ Len(approvals_db) = 1

\* C9: an approval with a valid decision succeeds for every case_id that a
\* PENDING_APPROVAL case (backend) or record (workflow) carries, whatever was
\* analyzed, created or decided before.
C9_PendingCaseCanBeDecided ==
    [][ /\ \A c \in RequestCaseIds :
              (\E i \in 1..Len(cases_db) :
                  cases_db[i].case_id = c /\ cases_db[i].status = "PENDING_APPROVAL") =>
                  \A o \in OfficerIds, d \in Decisions :
                      approve_case_call(c, o, d, NotesOf(o)) => response'.code = "200"
        /\ \A c \in WorkflowCaseIds :
              (\E i \in 1..Len(approval_log) :
                  approval_log[i].case_id = c
                  /\ approval_log[i].status = "PENDING_APPROVAL") =>
                  \A o \in OfficerIds, d \in Decisions :
                      process_human_approval_call(c, o, d, NotesOf(o))
                          => response'.code = "ok"
      ]_vars

\* the records of the log with a given case_id, by index
IndicesOf(case_id) == {i \in 1..Len(approval_log) : approval_log[i].case_id = case_id}

\* C10: get_approval_history() without a case_id returns the whole log in
\* insertion order, and get_approval_history(case_id) returns, for every
\* case_id string, exactly the records with that case_id in insertion order.
C10_HistoryFilter ==
    /\ get_approval_history(approval_log, None) = approval_log
    /\ \A c \in WorkflowCaseIds :
          LET result == get_approval_history(approval_log, c)
          IN  /\ Len(result) = Cardinality(IndicesOf(c))
              /\ \A k \in 1..Len(result) :
                    result[k] = approval_log[KthOf(IndicesOf(c), k)]

\* two clients whose requests for one case_id were both waiting while the
\* case was still PENDING_APPROVAL, and both were answered since
Raced(a, b) ==
    /\ a # b
    /\ requests[a].pc = "done" /\ requests[b].pc = "done"
    /\ requests[a].case_id = requests[b].case_id
    /\ requests[a].pending_on_arrival /\ requests[b].pending_on_arrival

C12_AppendOnlyMutableOnce ==
    [][ /\ Len(cases_db') \in {Len(cases_db), Len(cases_db) + 1}
        /\ Len(cases_db') = Len(cases_db) + 1
              <=> (analyze_case /\ response' = Answer("analyze_case", "200"))
        /\ \A i \in 1..Len(cases_db) :
              /\ cases_db'[i].case_id = cases_db[i].case_id
              /\ cases_db[i].status # "PENDING_APPROVAL"
                    => cases_db'[i] = cases_db[i]
              /\ cases_db'[i] # cases_db[i]
                    => /\ approve_case
                       /\ response' = Answer("approve_case", "200")
                       /\ cases_db'[i].status \in Decisions
                       /\ \A j \in 1..Len(cases_db) :
                             j # i => cases_db'[j] = cases_db[j]
      ]_vars

\* the first case was approved and a second case was analyzed afterwards
C12_Witness ==
    /\ Len(cases_db) = 2
    /\ cases_db[1].status = "APPROVE"
    /\ cases_db[2].status = "PENDING_APPROVAL"
    /\ Len(approvals_db) = 1
    /\ response = Answer("analyze_case", "200")

\* C13: no step modifies or removes a record of approvals_db, whatever the
\* operation (analyze_case, approve_case accepted or refused, get_approvals);
\* and a record that a step appends carries, as ai_recommendation and
\* ai_risk_score, the recommended_action and risk_score that the case with its
\* case_id held when the step began.
C13_ApprovalRecordsImmutable ==
    [][ /\ Len(approvals_db') >= Len(approvals_db)
        /\ \A k \in 1..Len(approvals_db) : approvals_db'[k] = approvals_db[k]
        /\ \A k \in (Len(approvals_db) + 1)..Len(approvals_db') :
              LET i == FindFirst(cases_db, approvals_db'[k].case_id)
              IN  /\ i # 0
                  /\ approvals_db'[k].ai_recommendation = cases_db[i].recommended_action
                  /\ approvals_db'[k].ai_risk_score = cases_db[i].risk_score
      ]_vars

\* two records, the first for an urgent case scored 100 that was approved;
\* the log was read afterwards
C13_Witness ==
    /\ Len(approvals_db) = 2
    /\ approvals_db[1].ai_recommendation = "URGENT_REVIEW"
    /\ approvals_db[1].ai_risk_score = 100
    /\ approvals_db[1].decision = "APPROVE"
    /\ approvals_db[2].ai_recommendation = "ROUTINE_REVIEW"
    /\ get_approvals_result(1).approvals = <<approvals_db[1]>>
    /\ response = Answer("get_approvals", "200")

\* the external call is not attempted, or it is and does not come back with a text
FallbackCase ==
    \/ engine.client = None
    \/ ~Truthy(engine.deployment_name)
    \/ response.args.external \in {"prompt_raises", "call_raises", "no_content"}

\* C14: every call of generate_explanation returns a result (none ends in an
\* exception), and when the client is absent, the deployment name is missing
\* or empty, or the prompt construction or the external call raises, the
\* explanation of the result is the fallback message for the call's score.
C14_ExplanationNeverFails ==
    response.op = "generate_explanation" =>
        /\ response.code = "ok"
        /\ ~response.result.raised
        /\ FallbackCase =>
              /\ response.result.explanation.template \in {"high", "moderate", "low"}
              /\ response.result.explanation =
                    _generate_mock_explanation(response.args.risk_score,
                                               response.args.risk_level)
        /\ ~FallbackCase => response.result.explanation = GeneratedText

\* a configured client whose call raised: the caller got the high-risk fallback
C14_Witness ==
    /\ response.op = "generate_explanation"
    /\ engine = [client |-> "AzureOpenAI", deployment_name |-> "gpt-4"]
    /\ response.args.external = "call_raises"
    /\ response.code = "ok"
    /\ response.result.explanation.template = "high"

\* the level the score thresholds give
LevelOfScore(score) ==
    IF score >= 60 THEN "high" ELSE IF score >= 30 THEN "medium" ELSE "low"

\* C15: whenever generate_explanation answers with the fallback message, the
\* message is the high-risk text if risk_score >= 60, the moderate text if
\* 30 <= risk_score < 60 and the low text if risk_score < 30, whatever
\* risk_level was passed, and it shows the integer part of the score.
C15_FallbackKeyedOnScore ==
    (response.op = "generate_explanation"
        /\ response.result.explanation.template # "generated") =>
        LET score == response.args.risk_score
            text == response.result.explanation
        IN  /\ text.template = "high" <=> score >= 60
            /\ text.template = "moderate" <=> (30 <= score /\ score < 60)
            /\ text.template = "low" <=> score < 30
            /\ text.shown = IntToStr(score)

\* level low passed with a score of 60: the message is the high-risk text
C15_Witness ==
    /\ response.op = "generate_explanation"
    /\ response.args.risk_level = "low"
    /\ response.args.risk_score = 60
    /\ response.result.explanation = [template |-> "high", shown |-> "60"]

\* C16: every stored case's risk_level is the level the score thresholds give
\* for its risk_score, so the tier of the fallback explanation written for the
\* case and the recommended_action derived from its risk_level agree.
C16_LevelMatchesScore ==
    \A i \in 1..Len(cases_db) :
        /\ cases_db[i].risk_level = LevelOfScore(cases_db[i].risk_score)
        /\ cases_db[i].recommended_action =
              RecommendedAction(LevelOfScore(cases_db[i].risk_score))

\* C17: every risk_score that predict_risk returns lies in [0, 100], whatever
\* the regressor produced, and so does the risk_score of every stored case and
\* the ai_risk_score of every approval record.
C17_ScoreInRange ==
    /\ (response.op = "predict_risk" /\ response.code = "ok")
          => response.result.risk_score \in 0..100
    /\ \A i \in 1..Len(cases_db) : cases_db[i].risk_score \in 0..100
    /\ \A k \in 1..Len(approvals_db) : approvals_db[k].ai_risk_score \in 0..100

\* a case the regressor scored below 0 is stored with 0, next to the approval
\* record of a case the regressor scored above 100
C17_Witness ==
    /\ \E i \in 1..Len(cases_db) :
          cases_db[i].risk_level = "low" /\ cases_db[i].risk_score = 0
    /\ \E k \in 1..Len(approvals_db) :
          approvals_db[k].ai_recommendation = "URGENT_REVIEW"
          /\ approvals_db[k].ai_risk_score = 100

\* C18: the recommended_action that generate_explanation returns is
\* URGENT_REVIEW for level high, STANDARD_REVIEW for level medium and
\* ROUTINE_REVIEW for every other level, whatever the score and whether the
\* explanation is the external text or the fallback; stored cases carry the
\* action of their level.
C18_ActionFollowsLevel ==
    /\ response.op = "generate_explanation" =>
          response.result.recommended_action =
              CASE response.args.risk_level = "high" -> "URGENT_REVIEW"
                [] response.args.risk_level = "medium" -> "STANDARD_REVIEW"
                [] OTHER -> "ROUTINE_REVIEW"
    /\ \A i \in 1..Len(cases_db) :
          cases_db[i].recommended_action =
              CASE cases_db[i].risk_level = "high" -> "URGENT_REVIEW"
                [] cases_db[i].risk_level = "medium" -> "STANDARD_REVIEW"
                [] OTHER -> "ROUTINE_REVIEW"

\* the external text came back for a call with level medium and a score of
\* 100: the action is still STANDARD_REVIEW
C18_Witness ==
    /\ response.op = "generate_explanation"
    /\ response.result.explanation = GeneratedText
    /\ response.args.risk_level = "medium"
    /\ response.args.risk_score = 100
    /\ response.result.recommended_action = "STANDARD_REVIEW"

\* C19: predict_risk raises whenever is_trained is false, and analyze_case
\* answers 503 and leaves the case store unchanged whenever risk_model or
\* explanation_engine is not set.
C19_NotLoadedFails ==
    [][ /\ (predict_risk /\ ~risk_model.is_trained)
              => /\ response'.code = "raised"
                 /\ response'.result = Raised
        /\ (analyze_case /\ ~models_loaded)
              => /\ response' = Answer("analyze_case", "503")
                 /\ cases_db' = cases_db
      ]_vars

\* predict_risk was called on a model that was never loaded
C19_Witness ==
    /\ response.op = "predict_risk"
    /\ ~risk_model.is_trained
    /\ response.code = "raised"
    /\ response.args.level = "high"

\* the stored cases that pass the filters given (a parameter left out is no
\* filter)
Matching(status, risk_level) ==
    {i \in 1..Len(cases_db) :
        /\ status # None => cases_db[i].status = status
        /\ risk_level # None => cases_db[i].risk_level = risk_level}

\* C20: for every store and every status, risk_level and integer limit, GET
\* /cases returns the first `limit` of the cases that match both filters,
\* newest first: each returned case is a stored case that passes every filter
\* given, none is returned twice, timestamps do not increase along the result,
\* no case left out is newer than a returned one, and the result has
\* min(limit, number of matching cases) cases, never more than `limit`.
C20_GetCases ==
    \A status \in StatusArgs, risk_level \in LevelFilterArgs, limit \in Limits :
        LET result == get_cases_result(status, risk_level, limit)
            matching == Matching(status, risk_level)
            returned == {i \in matching : \E k \in 1..Len(result) : result[k] = cases_db[i]}
        IN  /\ Len(result) <= limit
            /\ Len(result) = IF limit < Cardinality(matching)
                             THEN limit ELSE Cardinality(matching)
            /\ \A k \in 1..Len(result) :
                  \E i \in matching : result[k] = cases_db[i]
            /\ \A k, l \in 1..Len(result) :
                  /\ k < l => result[k].timestamp >= result[l].timestamp
                  /\ k # l => result[k] # result[l]
            /\ \A i \in matching \ returned, j \in returned :
                  cases_db[i].timestamp <= cases_db[j].timestamp

\* the scheme types of a batch that sort before s
SortBefore(df, s) ==
    {df[j].scheme_type : j \in DOMAIN df} \cap {u \in SchemeTypes : SchemeRank(u) < SchemeRank(s)}

\* C21: every prepare_features call refits the encoder to its own batch: the
\* encoder's classes are then the batch's distinct scheme types, and the code
\* in each row of the result is the number of distinct scheme types of that
\* batch that sort before the row's own, whatever the encoder held before.
C21_EncoderRefitPerBatch ==
    response.op = "prepare_features" =>
        LET df == response.args.df
            X == response.result.X
        IN  /\ Len(X) = Len(df)
            /\ {risk_model.classes[k] : k \in DOMAIN risk_model.classes}
                  = {df[i].scheme_type : i \in DOMAIN df}
            /\ \A i \in DOMAIN df :
                  /\ X[i][3] = Cardinality(SortBefore(df, df[i].scheme_type))
                  /\ X[i][1] = df[i].income

\* the model file's encoder gave subsidy the code 2; a call with the batch
\* (ration, subsidy) gives it 1, and a call with subsidy alone would give 0
C21_Witness ==
    /\ response.op = "prepare_features"
    /\ risk_model.is_trained
    /\ Len(response.args.df) = 2
    /\ response.args.df[1].scheme_type = "ration"
    /\ response.args.df[2].scheme_type = "subsidy"
    /\ response.result.X[2][3] = 1
    /\ prepare_features_call(risk_model, <<response.args.df[2]>>).X[1][3] = 0
    /\ Transform(LoadedModel("by_scheme").classes, <<"subsidy">>)[1] = 2

\* the cases that differ from case in scheme_type at most
SameButScheme(case) == {[case EXCEPT !.scheme_type = t] : t \in SchemeTypes}

\* C28: analyze_case scores a one-row batch, so the refitted encoder codes
\* every scheme_type as 0: the feature vector, risk_level, risk_score and
\* recommended_action of a scored case are those of the same case under any
\* other scheme_type.
C28_SchemeTypeIgnored ==
    response.op = "score_case" =>
        /\ risk_model.classes = <<response.args.case.scheme_type>>
        /\ \A other \in SameButScheme(response.args.case) :
              score_case_call(risk_model, other).result = response.result
        /\ ~response.result.raised => response.result.X[1][3] = 0

\* a subsidy case scored by a forest that separates the scheme types by their
\* training codes: it is scored as code 0, the training code of pension
C28_Witness ==
    /\ response.op = "score_case"
    /\ ~response.result.raised
    /\ risk_model.forest = "by_scheme"
    /\ response.args.case.scheme_type = "subsidy"
    /\ response.args.case.income = 45000
    /\ response.result.X[1][3] = 0
    /\ response.result.risk_level = "high"
    /\ ForestPredict("by_scheme", <<45000, 6, 2, 1>>) = <<"low", -5>>

\* C22: process_human_approval for a case_id whose record is PENDING_APPROVAL,
\* with a decision that is neither APPROVE nor REJECT, raises; the record stays
\* PENDING_APPROVAL with human_decision, officer_id, officer_notes and
\* approved_at unset, the log is as before and no audit entry is written.
C22_InvalidDecisionRefused ==
    [][ response'.op = "process_human_approval" =>
        \A c \in WorkflowCaseIds, d \in WorkflowDecisions \ {"APPROVE", "REJECT"} :
            LET i == FindFirst(approval_log, c)
            IN  (i # 0 /\ approval_log[i].status = "PENDING_APPROVAL") =>
                    \A o \in OfficerIds :
                        process_human_approval_call(c, o, d, NotesOf(o))
                            => /\ response'.code = "invalid_decision"
                               /\ approval_log' = approval_log
                               /\ approval_log'[i].status = "PENDING_APPROVAL"
                               /\ approval_log'[i].human_decision = None
                               /\ approval_log'[i].officer_id = None
                               /\ approval_log'[i].officer_notes = None
                               /\ approval_log'[i].approved_at = None
                               /\ audit_log' = audit_log
      ]_vars

\* a decision MAYBE was refused while a record decided earlier had its audit
\* entry and the record asked for is still pending
C22_Witness ==
    /\ response = Answer("process_human_approval", "invalid_decision")
    /\ Len(audit_log) = 1
    /\ \E i \in 1..Len(approval_log) :
          /\ approval_log[i].status = "PENDING_APPROVAL"
          /\ approval_log[i].officer_id = None

\* C23: a successful process_human_approval changes nothing but
\* human_decision, officer_id, officer_notes, status and approved_at of the
\* record it matched: that record's case_id, ai_recommendation, ai_risk_score,
\* ai_explanation and created_at, every other record, and the length and order
\* of the log are as before.
C23_ApprovalFrame ==
    [][ response'.op = "process_human_approval" =>
        \A c \in WorkflowCaseIds :
            LET i == FindFirst(approval_log, c)
            IN  i # 0 =>
                    \A o \in OfficerIds, d \in WorkflowDecisions :
                        (/\ process_human_approval_call(c, o, d, NotesOf(o))
                         /\ response'.code = "ok")
                            => /\ Len(approval_log') = Len(approval_log)
                               /\ \A j \in 1..Len(approval_log) :
                                     j # i => approval_log'[j] = approval_log[j]
                               /\ approval_log'[i].case_id = approval_log[i].case_id
                               /\ approval_log'[i].ai_recommendation = approval_log[i].ai_recommendation
                               /\ approval_log'[i].ai_risk_score = approval_log[i].ai_risk_score
                               /\ approval_log'[i].ai_explanation = approval_log[i].ai_explanation
                               /\ approval_log'[i].created_at = approval_log[i].created_at
                               /\ approval_log'[i] # approval_log[i]
      ]_vars

\* the second of two records was decided: it kept its explanation and the
\* first record is still as created
C23_Witness ==
    /\ response = Answer("process_human_approval", "ok")
    /\ Len(approval_log) = 2
    /\ approval_log[1] = NewApprovalRequest("CASE_001", "URGENT_REVIEW", 75, "urgent attention", now)
    /\ approval_log[2].case_id = "CASE_002"
    /\ approval_log[2].status = "REJECTED"
    /\ approval_log[2].ai_explanation = "standard review"
    /\ approval_log[2].ai_risk_score = 45

\* the records of the log that were decided
DecidedIndices == {i \in 1..Len(approval_log) : approval_log[i].status \in {"APPROVED", "REJECTED"}}

\* C24: a successful process_human_approval appends exactly one audit entry,
\* which carries the updated record's case_id, officer_id, ai_recommendation,
\* human_decision and decision_alignment; a call that raises appends none; in
\* every state there are as many audit entries as APPROVED or REJECTED records.
C24_OneAuditEntryPerDecision ==
    /\ [](Len(audit_log) = Cardinality(DecidedIndices))
    /\ [][ response'.op = "process_human_approval" =>
           \A c \in WorkflowCaseIds, o \in OfficerIds, d \in WorkflowDecisions :
              process_human_approval_call(c, o, d, NotesOf(o))
                  => IF response'.code = "ok"
                     THEN LET decided == approval_log'[FindFirst(approval_log, c)]
                              entry == audit_log'[Len(audit_log')]
                          IN  /\ Len(audit_log') = Len(audit_log) + 1
                              /\ SubSeq(audit_log', 1, Len(audit_log)) = audit_log
                              /\ decided.status \in {"APPROVED", "REJECTED"}
                              /\ entry.case_id = decided.case_id
                              /\ entry.officer_id = o
                              /\ entry.officer_id = decided.officer_id
                              /\ entry.ai_recommendation = decided.ai_recommendation
                              /\ entry.human_decision = d
                              /\ entry.human_decision = decided.human_decision
                              /\ entry.decision_alignment = _check_decision_alignment(decided)
                     ELSE audit_log' = audit_log
         ]_vars

\* two decisions and two audit entries, the second one written after a
\* rejection by the second officer
C24_Witness ==
    /\ response = Answer("process_human_approval", "ok")
    /\ Len(audit_log) = 2
    /\ Cardinality(DecidedIndices) = 2
    /\ audit_log[2].human_decision = "REJECT"
    /\ audit_log[2].officer_id = "OFFICER_456"
    /\ audit_log[1].human_decision = "APPROVE"

\* C25: every record of the workflow log is APPROVED exactly when its
\* human_decision is APPROVE, REJECTED exactly when its human_decision is
\* REJECT, and PENDING_APPROVAL exactly when its human_decision, officer_id
\* and approved_at are all unset.
C25_StatusMatchesDecision ==
    \A i \in 1..Len(approval_log) :
        LET a == approval_log[i]
        IN  /\ a.status = "APPROVED" <=> a.human_decision = "APPROVE"
            /\ a.status = "REJECTED" <=> a.human_decision = "REJECT"
            /\ a.status = "PENDING_APPROVAL" <=>
                  (a.human_decision = None /\ a.officer_id = None /\ a.approved_at = None)
            /\ a.status \in {"PENDING_APPROVAL", "APPROVED", "REJECTED"}

\* a log with a rejected record and a pending one
C25_Witness ==
    /\ Len(approval_log) = 2
    /\ approval_log[1].status = "REJECTED"
    /\ approval_log[1].human_decision = "REJECT"
    /\ approval_log[1].officer_id = "OFFICER_123"
    /\ approval_log[2].status = "PENDING_APPROVAL"
    /\ approval_log[2].human_decision = None

\* the records that have an earlier record with the same case_id
LaterDuplicates ==
    {j \in 1..Len(approval_log) :
        \E i \in 1..(j - 1) : approval_log[i].case_id = approval_log[j].case_id}

\* C26: of the records with one case_id, process_human_approval changes only
\* the earliest; once that one is decided every call for the case_id raises
\* already-processed, and every later record with that case_id is
\* PENDING_APPROVAL, and listed by get_pending_approvals, in every state.
C26_LaterDuplicateNeverDecided ==
    /\ [](\A j \in LaterDuplicates :
              /\ approval_log[j].status = "PENDING_APPROVAL"
              /\ \E k \in 1..Len(get_pending_approvals(approval_log)) :
                    get_pending_approvals(approval_log)[k] = approval_log[j])
    /\ [][ response'.op = "process_human_approval" =>
           \A c \in WorkflowCaseIds :
              LET i == FindFirst(approval_log, c)
              IN  i # 0 =>
                      \A o \in OfficerIds, d \in WorkflowDecisions :
                          process_human_approval_call(c, o, d, NotesOf(o))
                              => /\ \A j \in 1..Len(approval_log) :
                                       j # i => approval_log'[j] = approval_log[j]
                                 /\ approval_log[i].status # "PENDING_APPROVAL"
                                       => /\ response'.code = "already_processed"
                                          /\ approval_log' = approval_log
         ]_vars

\* two records for CASE_001: the first was approved, a later call for
\* CASE_001 was refused, and the second record is still pending
C26_Witness ==
    /\ response = Answer("process_human_approval", "already_processed")
    /\ Len(approval_log) = 2
    /\ approval_log[1].case_id = "CASE_001"
    /\ approval_log[2].case_id = "CASE_001"
    /\ approval_log[1].status = "APPROVED"
    /\ approval_log[2].status = "PENDING_APPROVAL"
    /\ 2 \in LaterDuplicates

\* seconds at which a later case may be created, and the lengths the store
\* may have by then
LaterSeconds == {0, 1, 9, 10, 11, 59}
LaterLengths == {n \in {0, 1, 2, 3, 9, 10, 11, 100, 1000} : n >= Len(cases_db)}

\* C27: with one call at a time no two stored cases share a case_id: the id of
\* the case at position i embeds the length i - 1 the store had when it was
\* created, and once a case is stored, an id made at any later second for any
\* later length differs from every stored one, in main.py's format and in the
\* format of step4_backend_api.py and app.py.
C27_CaseIdsDistinct ==
    /\ \A i, j \in 1..Len(cases_db) :
          i # j => cases_db[i].case_id # cases_db[j].case_id
    /\ \A i \in 1..Len(cases_db) :
          cases_db[i].case_id = MakeCaseId(cases_db[i].timestamp, i - 1)
    /\ response = Answer("analyze_case", "200") =>
          \A i \in 1..Len(cases_db), t \in LaterSeconds, n \in LaterLengths :
              /\ MakeCaseId(t, n) # cases_db[i].case_id
              /\ MakeCaseIdCompact(t, n) # MakeCaseIdCompact(cases_db[i].timestamp, i - 1)

\* two cases analyzed within the same second: their ids differ in the length
C27_Witness ==
    /\ response = Answer("analyze_case", "200")
    /\ Len(cases_db) = 2
    /\ cases_db[1].timestamp = cases_db[2].timestamp
    /\ cases_db[1].case_id = "CASE_20260101_000000_000"
    /\ cases_db[2].case_id = "CASE_20260101_000000_001"
    /\ MakeCaseIdCompact(cases_db[2].timestamp, 1) = "CASE_20260101000000_1"

\* the template the score thresholds name, for a score in tenths
TemplateOfScore(tenths) ==
    IF tenths >= 60 * 10 THEN "high" ELSE IF tenths >= 30 * 10 THEN "moderate" ELSE "low"

\* C29: the explanation that step 3's generate_explanation returns, for the
\* prompt create_explanation_prompt builds, is the high-risk text when
\* risk_score >= 60, the moderate text when 30 <= risk_score < 60 and the
\* low-risk text below 30.
C29_Step3ExplanationFollowsScore ==
    response.op = "step3.generate_explanation" =>
        response.result.explanation.template = TemplateOfScore(response.args.risk_score)

====
